---- MODULE Spec2Model ----
(***************************************************************************)
(* Change-of-value subscription and notification engine of                 *)
(* samples/COVMixin.py: the subscription registry (SubscriptionList,       *)
(* Subscription), the change criteria (COVCriteria, COVIncrementCriteria), *)
(* the write hook of COVObjectMixin and the per-client queue of confirmed  *)
(* notifications of COVApplicationMixin.                                   *)
(*                                                                         *)
(* Time is counted in ticks, TicksPerSecond ticks to the second, so that   *)
(* the float arithmetic of int(cov.taskTime - current_time) has fractions  *)
(* to truncate.  Analog values are counted in halves (2 = 1.0).  Python's  *)
(* None is the empty sequence and a present value x is <<x>> wherever a    *)
(* field may hold either.                                                  *)
(***************************************************************************)
EXTENDS Integers, Sequences, FiniteSets, TLC

\* ------------------------------------------------------------------ bounds
TicksPerSecond == 2
MaxTime == 3
MaxSubs == 3
MaxEnq == 3

\* ------------------------------------------------------------------ inputs
None == << >>
Some(x) == << x >>

Addrs == {"c1", "c2"}
ProcIds == {1}
Objects == {"avo", "bvo"}
ObjIds == Objects \cup {"nvo"}
Lifetimes == {0, 1}
ApduTypes == {"SimpleAck", "Error", "Reject", "Abort"}

\* main(): the objects the sample application is built with
ObjectClass(o) ==
    IF o = "avo" THEN "COVIncrementCriteria"
    ELSE IF o = "pco" THEN "PulseConverterCriteria"
    ELSE "GenericCriteria"
InitialValues(o) ==
    IF o = "avo"
    THEN [presentValue |-> 0, statusFlags |-> 0, covIncrement |-> 2]
    ELSE [presentValue |-> 0, statusFlags |-> 0, covIncrement |-> 0]

properties_tracked(o) == << "presentValue", "statusFlags" >>
properties_reported(o) == << "presentValue", "statusFlags" >>

VARIABLES
    now,                            \* TaskManager().get_time(), in ticks
    values,                         \* obj._values
    cov_properties,                 \* obj._cov_properties
    subs,                           \* the Subscription objects alive on the heap
    cov_subscriptions,              \* obj._cov_subscriptions.cov_subscriptions
    active_cov_subscriptions,       \* app.active_cov_subscriptions
    confirmed_notifications_queue,  \* app.confirmed_notifications_queue
    nextInvokeID,                   \* the stack's invoke id counter
    sent,                           \* requests handed to the stack in the last step
    reply,                          \* response(...) of the last step
    passed,                         \* last step handed the apdu to the default handler
    raised,                         \* exception that ended the last step
    enq,                            \* per client: notifications queued so far
    txLog,                          \* per client: stamps of the requests transmitted
    dropped,                        \* per client: stamps of the requests discarded
    asked,                          \* per subscription: what was last requested
    lastStep,                       \* the handler that ran last
    checked,                        \* _check_criteria of the last step: the object,
                                    \* its snapshot before, the value returned
    notified,                       \* cov_notification calls of the last step, in order
    datatype                        \* per object: the properties get_datatype resolves

vars == << now, values, cov_properties, subs, cov_subscriptions,
           active_cov_subscriptions, confirmed_notifications_queue,
           nextInvokeID, sent, reply, passed, raised, enq, txLog, dropped,
           asked, lastStep, checked, notified, datatype >>

\* ------------------------------------------------------- sequence helpers
RECURSIVE RemoveFirst(_, _)
RemoveFirst(s, x) ==
    IF s = << >> THEN << >>
    ELSE IF Head(s) = x THEN Tail(s)
    ELSE << Head(s) >> \o RemoveFirst(Tail(s), x)

Range(s) == { s[i] : i \in DOMAIN s }

RECURSIVE SumOver(_, _)
SumOver(f, S) ==
    IF S = {} THEN 0
    ELSE LET x == CHOOSE y \in S : TRUE IN f[x] + SumOver(f, S \ {x})

\* ------------------------------------------------------------ task manager
\* OneShotTask.install_task(delta=seconds): due delta seconds from now
install_task(cov, delta) ==
    [cov EXCEPT !.isScheduled = TRUE,
                !.taskTime = Some(now + delta * TicksPerSecond)]

\* OneShotTask.suspend_task(): taken off the schedule, harmless when not on it
suspend_task(cov) == [cov EXCEPT !.isScheduled = FALSE]

\* ---------------------------------------------------------- SubscriptionList
\* find that never finds
find_nothing(covs, client_addr, proc_id, obj_id) == None

RECURSIVE find(_, _, _, _)
find(covs, client_addr, proc_id, obj_id) ==
    IF covs = << >> THEN None
    ELSE LET cov == subs[Head(covs)]
             all_equal == /\ cov.client_addr = client_addr
                          /\ cov.proc_id = proc_id
                          /\ cov.obj_id = obj_id
         IN  IF all_equal THEN Some(Head(covs))
             ELSE find(Tail(covs), client_addr, proc_id, obj_id)

\* -------------------------------------------------------------- Subscription
\* The registry the methods of Subscription work on
Registry ==
    [subs |-> subs, cov_subscriptions |-> cov_subscriptions,
     active |-> active_cov_subscriptions, raised |-> None]

\* a new object takes the first free place on the heap
NewId(S) == CHOOSE n \in 1 .. (Cardinality(DOMAIN S) + 1) :
                /\ n \notin DOMAIN S
                /\ \A m \in 1 .. (n - 1) : m \in DOMAIN S

Subscription__init__(R, obj_ref, client_addr, proc_id, obj_id, confirmed, lifetime) ==
    LET self == NewId(R.subs)
        cov == [obj_ref |-> Some(obj_ref), client_addr |-> client_addr,
                proc_id |-> proc_id, obj_id |-> obj_id,
                confirmed |-> confirmed, lifetime |-> lifetime,
                isScheduled |-> FALSE, taskTime |-> None]
        made == IF lifetime # 0 THEN install_task(cov, lifetime) ELSE cov
    IN  [R EXCEPT
           !.subs = [c \in DOMAIN R.subs \cup {self} |->
                        IF c = self THEN made ELSE R.subs[c]],
           !.cov_subscriptions[obj_ref] = Append(R.cov_subscriptions[obj_ref], self),
           !.active = Append(R.active, self)]

\* cancel_subscription leaving the list of all active subscriptions alone
cancel_subscription_keeps_active(R, self) ==
    LET cov == suspend_task(R.subs[self])
        obj == cov.obj_ref[1]
    IN  [R EXCEPT !.subs[self] = [cov EXCEPT !.obj_ref = None],
                  !.cov_subscriptions[obj] = RemoveFirst(R.cov_subscriptions[obj], self)]

\* cancel_subscription leaving the task on the schedule
cancel_subscription_keeps_task(R, self) ==
    LET cov == R.subs[self]
    IN  IF cov.obj_ref = None
        THEN [R EXCEPT !.raised = Some("AttributeError")]
        ELSE LET obj == cov.obj_ref[1]
             IN  [R EXCEPT !.cov_subscriptions[obj] =
                               RemoveFirst(R.cov_subscriptions[obj], self),
                           !.active = RemoveFirst(R.active, self),
                           !.subs[self].obj_ref = None]

cancel_subscription(R, self) ==
    LET cov == suspend_task(R.subs[self])
        R1 == [R EXCEPT !.subs[self] = cov]
    IN  IF cov.obj_ref = None
        THEN [R1 EXCEPT !.raised = Some("AttributeError")]
        ELSE LET obj == cov.obj_ref[1] IN
             IF self \notin Range(R1.cov_subscriptions[obj])
             THEN [R1 EXCEPT !.raised = Some("ValueError")]
             ELSE LET R2 == [R1 EXCEPT !.cov_subscriptions[obj] =
                                           RemoveFirst(R1.cov_subscriptions[obj], self)]
                  IN  IF self \notin Range(R2.active)
                      THEN [R2 EXCEPT !.raised = Some("ValueError")]
                      ELSE [R2 EXCEPT !.active = RemoveFirst(R2.active, self),
                                      !.subs[self].obj_ref = None]

renew_subscription(R, self, lifetime) ==
    LET cov == R.subs[self]
        suspended == IF cov.isScheduled THEN suspend_task(cov) ELSE cov
    IN  [R EXCEPT !.subs[self] =
            IF lifetime # 0 THEN install_task(suspended, lifetime) ELSE suspended]

\* process_task that lets the subscription be
process_task_ignores(R, self) == R

process_task(R, self) == cancel_subscription(R, self)

\* ------------------------------------------------------------ COVCriteria
\* the loop of _check_criteria without the copy for next time
check_tracked_keeps(names, vals, snap, something_changed) ==
    [changed |-> \E i \in DOMAIN names : vals[names[i]] # snap[names[i]],
     cov_properties |-> snap]

RECURSIVE check_tracked(_, _, _, _)
check_tracked(names, vals, snap, something_changed) ==
    IF names = << >>
    THEN [changed |-> something_changed, cov_properties |-> snap]
    ELSE LET property_name == Head(names)
             property_changed == vals[property_name] # snap[property_name]
         IN  IF property_changed
             THEN check_tracked(Tail(names), vals,
                                [snap EXCEPT ![property_name] = vals[property_name]],
                                TRUE)
             ELSE check_tracked(Tail(names), vals, snap, something_changed)

COVCriteria_check_criteria(o, vals, snap) ==
    check_tracked(properties_tracked(o), vals, snap, FALSE)

\* the increment check with the boundaries left out
COVIncrementCriteria_check_criteria_strict(o, vals, snap) ==
    LET old_present_value == snap.presentValue
        new_present_value == vals.presentValue
        cov_increment == vals.covIncrement
        value_changed == \/ new_present_value < old_present_value - cov_increment
                         \/ new_present_value > old_present_value + cov_increment
        status_changed == vals.statusFlags # snap.statusFlags
        snap1 == IF value_changed
                 THEN [snap EXCEPT !.presentValue = new_present_value] ELSE snap
        snap2 == IF status_changed
                 THEN [snap1 EXCEPT !.statusFlags = vals.statusFlags] ELSE snap1
    IN  [changed |-> value_changed \/ status_changed, cov_properties |-> snap2]

\* the criteria reporting a present value that reached the increment without
\* taking it as the new snapshot
COVIncrementCriteria_check_criteria_no_copy(o, vals, snap) ==
    LET old_present_value == snap.presentValue
        new_present_value == vals.presentValue
        cov_increment == vals.covIncrement
        value_changed == \/ new_present_value <= old_present_value - cov_increment
                         \/ new_present_value >= old_present_value + cov_increment
        status_changed == vals.statusFlags # snap.statusFlags
        snap1 == snap
        snap2 == IF status_changed
                 THEN [snap1 EXCEPT !.statusFlags = vals.statusFlags] ELSE snap1
    IN  [changed |-> value_changed \/ status_changed, cov_properties |-> snap2]

COVIncrementCriteria_check_criteria(o, vals, snap) ==
    LET old_present_value == snap.presentValue
        new_present_value == vals.presentValue
        cov_increment == vals.covIncrement
        value_changed == \/ new_present_value <= old_present_value - cov_increment
                         \/ new_present_value >= old_present_value + cov_increment
        status_changed == vals.statusFlags # snap.statusFlags
        snap1 == IF value_changed
                 THEN [snap EXCEPT !.presentValue = new_present_value] ELSE snap
        snap2 == IF status_changed
                 THEN [snap1 EXCEPT !.statusFlags = vals.statusFlags] ELSE snap1
    IN  [changed |-> value_changed \/ status_changed, cov_properties |-> snap2]

\* PulseConverterCriteria is not a COVCriteria: it has no _check_criteria
has_check_criteria(o) == ObjectClass(o) # "PulseConverterCriteria"

check_criteria(o, vals, snap) ==
    IF ObjectClass(o) = "COVIncrementCriteria"
    THEN COVIncrementCriteria_check_criteria(o, vals, snap)
    ELSE COVCriteria_check_criteria(o, vals, snap)

\* ------------------------------------------- confirmed notifications queue
\* defaultdict(list): reading a missing key makes it
Get(q, a) == IF a \in DOMAIN q THEN q[a] ELSE << >>
Put(q, a, v) == [x \in DOMAIN q \cup {a} |-> IF x = a THEN v ELSE q[x]]
Del(q, a) == [x \in DOMAIN q \ {a} |-> q[x]]

\* what cov_notification and confirmation work on
Delivery ==
    [queue |-> confirmed_notifications_queue, nextInvokeID |-> nextInvokeID,
     sent |-> << >>, enq |-> enq, txLog |-> txLog, dropped |-> dropped,
     passed |-> FALSE, raised |-> None, notified |-> << >>]

\* BIPSimpleApplication.request of an unconfirmed request
request_unconfirmed(D, request) == [D EXCEPT !.sent = Append(D.sent, request)]

\* BIPSimpleApplication.request of the request object at queue[addr][i]: the
\* stack gives it the next invoke id and transmits it
request_confirmed(D, addr, i) ==
    LET item == D.queue[addr][i]
        request == [item.request EXCEPT !.apduInvokeID = Some(D.nextInvokeID)]
    IN  [D EXCEPT !.queue[addr][i].request = request,
                  !.nextInvokeID = D.nextInvokeID + 1,
                  !.sent = Append(D.sent, request),
                  !.txLog[addr] = Append(D.txLog[addr], item.stamp)]

\* cov_notification(cov, request) is entered
called(D, cov, request) ==
    [D EXCEPT !.notified = Append(D.notified, [cov |-> cov, request |-> request])]

\* cov_notification without the wait for the first one to be done
cov_notification_sends_all(D, cov, request) ==
    LET D0 == called(D, cov, request)
    IN  IF subs[cov].confirmed
        THEN LET addr == subs[cov].client_addr
                 notification_list ==
                     Append(Get(D0.queue, addr),
                            [request |-> request, cov |-> cov, stamp |-> D0.enq[addr] + 1])
                 D1 == [D0 EXCEPT !.queue = Put(D0.queue, addr, notification_list),
                                  !.enq[addr] = D0.enq[addr] + 1]
             IN  request_confirmed(D1, addr, Len(notification_list))
        ELSE request_unconfirmed(D0, request)

\* cov_notification keeping track of every request, confirmed or not
cov_notification_queues_all(D, cov, request) ==
    LET D0 == called(D, cov, request)
    IN  IF TRUE
        THEN LET addr == subs[cov].client_addr
                 notification_list ==
                     Append(Get(D0.queue, addr),
                            [request |-> request, cov |-> cov, stamp |-> D0.enq[addr] + 1])
                 D1 == [D0 EXCEPT !.queue = Put(D0.queue, addr, notification_list),
                                  !.enq[addr] = D0.enq[addr] + 1]
             IN  IF Len(notification_list) > 1
                 THEN D1
                 ELSE request_confirmed(D1, addr, Len(notification_list))
        ELSE request_unconfirmed(D0, request)

cov_notification(D, cov, request) ==
    LET D0 == called(D, cov, request)
    IN  IF subs[cov].confirmed
        THEN LET addr == subs[cov].client_addr
                 notification_list ==
                     Append(Get(D0.queue, addr),
                            [request |-> request, cov |-> cov, stamp |-> D0.enq[addr] + 1])
                 D1 == [D0 EXCEPT !.queue = Put(D0.queue, addr, notification_list),
                                  !.enq[addr] = D0.enq[addr] + 1]
             IN  IF Len(notification_list) > 1
                 THEN D1
                 ELSE request_confirmed(D1, addr, Len(notification_list))
        ELSE request_unconfirmed(D0, request)

\* cov_error doing what cov_abort does
cov_error_clears(D, cov, request, response) ==
    [D EXCEPT !.queue = Put(D.queue, subs[cov].client_addr, << >>)]

cov_error(D, cov, request, response) == D

cov_reject(D, cov, request, response) == D

\* cov_abort leaving the pending requests where they are
cov_abort_keeps(D, cov, request, response) == D

cov_abort(D, cov, request, response) ==
    LET addr == subs[cov].client_addr
        rest == Get(D.queue, addr)
    IN  [D EXCEPT !.queue = Put(D.queue, addr, << >>),
                  !.dropped[addr] = D.dropped[addr] \cup
                                        { rest[i].stamp : i \in DOMAIN rest }]

\* responses: to a request awaiting one, or to an invoke id not yet given out
AwaitedIds ==
    { confirmed_notifications_queue[a][1].request.apduInvokeID[1] :
        a \in { x \in DOMAIN confirmed_notifications_queue :
                   /\ confirmed_notifications_queue[x] # << >>
                   /\ confirmed_notifications_queue[x][1].request.apduInvokeID # None } }
Apdus ==
    [pduSource : Addrs, apduInvokeID : AwaitedIds \cup {nextInvokeID}, type : ApduTypes]

\* confirmation taking the response for the head whatever its invoke id
confirmation_pops_unmatched(D, apdu) ==
    IF apdu.pduSource \notin DOMAIN D.queue
    THEN [D EXCEPT !.passed = TRUE]
    ELSE LET src == apdu.pduSource
             notification_list == D.queue[src]
         IN  IF notification_list = << >>
             THEN [D EXCEPT !.raised = Some("IndexError")]
             ELSE LET request == notification_list[1].request
                      cov == notification_list[1].cov
                  IN  LET D1 == [D EXCEPT !.queue[src] = Tail(notification_list)]
                               D2 == IF apdu.type = "Error"
                                     THEN cov_error(D1, cov, request, apdu)
                                     ELSE IF apdu.type = "Reject"
                                     THEN cov_reject(D1, cov, request, apdu)
                                     ELSE IF apdu.type = "Abort"
                                     THEN cov_abort(D1, cov, request, apdu)
                                     ELSE D1
                           IN  IF D2.queue[src] = << >>
                               THEN [D2 EXCEPT !.queue = Del(D2.queue, src)]
                               ELSE request_confirmed(D2, src, 1)

\* confirmation going on with the newest request instead of the oldest
confirmation_sends_last(D, apdu) ==
    IF apdu.pduSource \notin DOMAIN D.queue
    THEN [D EXCEPT !.passed = TRUE]
    ELSE LET src == apdu.pduSource
             notification_list == D.queue[src]
         IN  IF notification_list = << >>
             THEN [D EXCEPT !.raised = Some("IndexError")]
             ELSE LET request == notification_list[1].request
                      cov == notification_list[1].cov
                  IN  IF Some(apdu.apduInvokeID) # request.apduInvokeID
                      THEN [D EXCEPT !.passed = TRUE]
                      ELSE LET D1 == [D EXCEPT !.queue[src] = Tail(notification_list)]
                               D2 == IF apdu.type = "Abort"
                                     THEN cov_abort(D1, cov, request, apdu)
                                     ELSE D1
                           IN  IF D2.queue[src] = << >>
                               THEN [D2 EXCEPT !.queue = Del(D2.queue, src)]
                               ELSE request_confirmed(D2, src, Len(D2.queue[src]))

\* confirmation leaving the entry of the client when its list is empty
confirmation_keeps_key(D, apdu) ==
    IF apdu.pduSource \notin DOMAIN D.queue
    THEN [D EXCEPT !.passed = TRUE]
    ELSE LET src == apdu.pduSource
             notification_list == D.queue[src]
         IN  IF notification_list = << >>
             THEN [D EXCEPT !.raised = Some("IndexError")]
             ELSE LET request == notification_list[1].request
                      cov == notification_list[1].cov
                  IN  IF Some(apdu.apduInvokeID) # request.apduInvokeID
                      THEN [D EXCEPT !.passed = TRUE]
                      ELSE LET D1 == [D EXCEPT !.queue[src] = Tail(notification_list)]
                               D2 == IF apdu.type = "Error"
                                     THEN cov_error(D1, cov, request, apdu)
                                     ELSE IF apdu.type = "Reject"
                                     THEN cov_reject(D1, cov, request, apdu)
                                     ELSE IF apdu.type = "Abort"
                                     THEN cov_abort(D1, cov, request, apdu)
                                     ELSE D1
                           IN  IF D2.queue[src] = << >>
                               THEN D2
                               ELSE request_confirmed(D2, src, 1)

\* confirmation popping the head and leaving the next request where it is
confirmation_forgets_next(D, apdu) ==
    IF apdu.pduSource \notin DOMAIN D.queue
    THEN [D EXCEPT !.passed = TRUE]
    ELSE LET src == apdu.pduSource
             notification_list == D.queue[src]
         IN  IF notification_list = << >>
             THEN [D EXCEPT !.raised = Some("IndexError")]
             ELSE LET request == notification_list[1].request
                      cov == notification_list[1].cov
                  IN  IF Some(apdu.apduInvokeID) # request.apduInvokeID
                      THEN [D EXCEPT !.passed = TRUE]
                      ELSE LET D1 == [D EXCEPT !.queue[src] = Tail(notification_list)]
                               D2 == IF apdu.type = "Error"
                                     THEN cov_error(D1, cov, request, apdu)
                                     ELSE IF apdu.type = "Reject"
                                     THEN cov_reject(D1, cov, request, apdu)
                                     ELSE IF apdu.type = "Abort"
                                     THEN cov_abort(D1, cov, request, apdu)
                                     ELSE D1
                           IN  IF D2.queue[src] = << >>
                               THEN [D2 EXCEPT !.queue = Del(D2.queue, src)]
                               ELSE D2

\* confirmation taking no response for a subscription that was cancelled
confirmation_skips_cancelled(D, apdu) ==
    IF apdu.pduSource \notin DOMAIN D.queue
    THEN [D EXCEPT !.passed = TRUE]
    ELSE LET src == apdu.pduSource
             notification_list == D.queue[src]
         IN  IF notification_list = << >>
             THEN [D EXCEPT !.raised = Some("IndexError")]
             ELSE LET request == notification_list[1].request
                      cov == notification_list[1].cov
                  IN  IF \/ Some(apdu.apduInvokeID) # request.apduInvokeID
                         \/ subs[cov].obj_ref = None
                      THEN [D EXCEPT !.passed = TRUE]
                      ELSE LET D1 == [D EXCEPT !.queue[src] = Tail(notification_list)]
                               D2 == IF apdu.type = "Error"
                                     THEN cov_error(D1, cov, request, apdu)
                                     ELSE IF apdu.type = "Reject"
                                     THEN cov_reject(D1, cov, request, apdu)
                                     ELSE IF apdu.type = "Abort"
                                     THEN cov_abort(D1, cov, request, apdu)
                                     ELSE D1
                           IN  IF D2.queue[src] = << >>
                               THEN [D2 EXCEPT !.queue = Del(D2.queue, src)]
                               ELSE request_confirmed(D2, src, 1)

confirmation(D, apdu) ==
    IF apdu.pduSource \notin DOMAIN D.queue
    THEN [D EXCEPT !.passed = TRUE]
    ELSE LET src == apdu.pduSource
             notification_list == D.queue[src]
         IN  IF notification_list = << >>
             THEN [D EXCEPT !.raised = Some("IndexError")]
             ELSE LET request == notification_list[1].request
                      cov == notification_list[1].cov
                  IN  IF Some(apdu.apduInvokeID) # request.apduInvokeID
                      THEN [D EXCEPT !.passed = TRUE]
                      ELSE LET D1 == [D EXCEPT !.queue[src] = Tail(notification_list)]
                               D2 == IF apdu.type = "Error"
                                     THEN cov_error(D1, cov, request, apdu)
                                     ELSE IF apdu.type = "Reject"
                                     THEN cov_reject(D1, cov, request, apdu)
                                     ELSE IF apdu.type = "Abort"
                                     THEN cov_abort(D1, cov, request, apdu)
                                     ELSE D1
                           IN  IF D2.queue[src] = << >>
                               THEN [D2 EXCEPT !.queue = Del(D2.queue, src)]
                               ELSE request_confirmed(D2, src, 1)

\* ------------------------------------------------------------ COVObjectMixin
\* time remaining made at least one second whatever the lifetime
time_remaining_at_least_one(cov, current_time) ==
    IF cov.lifetime = 0 THEN 1
    ELSE LET d == cov.taskTime[1] - current_time
         IN  IF d \div TicksPerSecond = 0 THEN 1 ELSE d \div TicksPerSecond

time_remaining(cov, current_time) ==
    IF cov.lifetime = 0
    THEN 0
    ELSE LET d == cov.taskTime[1] - current_time
             int == IF d >= 0 THEN d \div TicksPerSecond
                    ELSE 0 - ((0 - d) \div TicksPerSecond)
         IN  IF int = 0 THEN 1 ELSE int

\* ActiveCOVSubscriptions.ReadProperty: the summaries of the active subscriptions
monitored_property_reference(o) == "presentValue"

ActiveCOVSubscriptions_ReadProperty ==
    [i \in DOMAIN active_cov_subscriptions |->
        LET cov == subs[active_cov_subscriptions[i]]
        IN  [recipient |-> [address |-> cov.client_addr,
                            processIdentifier |-> cov.proc_id],
             monitoredPropertyReference |->
                 [objectIdentifier |-> cov.obj_id,
                  propertyIdentifier |-> monitored_property_reference(cov.obj_ref[1])],
             issueConfirmedNotifications |-> cov.confirmed,
             timeRemaining |-> time_remaining(cov, now)]]

RECURSIVE list_of_values(_, _)
list_of_values(names, vals) ==
    IF names = << >> THEN << >>
    ELSE << [propertyIdentifier |-> Head(names), value |-> vals[Head(names)]] >>
         \o list_of_values(Tail(names), vals)

COVNotificationRequest(cov, current_time, lov) ==
    [confirmed |-> cov.confirmed,
     pduDestination |-> cov.client_addr,
     subscriberProcessIdentifier |-> cov.proc_id,
     monitoredObjectIdentifier |-> cov.obj_id,
     timeRemaining |-> time_remaining(cov, current_time),
     listOfValues |-> lov,
     apduInvokeID |-> None]

\* the loop over the subscriptions left after the first one
notify_each_first(D, covs, current_time, lov) ==
    IF covs = << >> THEN D
    ELSE cov_notification(D, Head(covs),
                          COVNotificationRequest(subs[Head(covs)], current_time, lov))

RECURSIVE notify_each(_, _, _, _)
notify_each(D, covs, current_time, lov) ==
    IF covs = << >> THEN D
    ELSE notify_each(
             cov_notification(D, Head(covs),
                              COVNotificationRequest(subs[Head(covs)], current_time, lov)),
             Tail(covs), current_time, lov)

\* Object.get_datatype: the datatype of the property, if the object has one
get_datatype(o, property_name) ==
    IF property_name \in datatype[o] THEN Some(property_name) ELSE None

\* the notifications sent with the properties that have a datatype
send_cov_notifications_skips_untyped(D, o, vals) ==
    IF Len(cov_subscriptions[o]) = 0
    THEN D
    ELSE notify_each(D, cov_subscriptions[o], now,
                     list_of_values(
                         SelectSeq(properties_reported(o),
                                   LAMBDA n : get_datatype(o, n) # None),
                         vals))

send_cov_notifications(D, o, vals) ==
    IF Len(cov_subscriptions[o]) = 0
    THEN D
    ELSE IF \E i \in DOMAIN properties_reported(o) :
                get_datatype(o, properties_reported(o)[i]) = None
    THEN [D EXCEPT !.raised = Some("DatatypeResolutionError")]
    ELSE notify_each(D, cov_subscriptions[o], now,
                     list_of_values(properties_reported(o), vals))

\* ------------------------------------------------------------------ steps
\* A Subscription object lives while a list, the task manager or a queued
\* notification refers to it
Referenced(R, D) ==
    { c \in DOMAIN R.subs :
        \/ c \in Range(R.active)
        \/ \E o \in Objects : c \in Range(R.cov_subscriptions[o])
        \/ R.subs[c].isScheduled
        \/ \E a \in DOMAIN D.queue : \E i \in DOMAIN D.queue[a] : D.queue[a][i].cov = c }

\* the state a handler leaves behind
Commit(R, D, A, handler) ==
    LET keep == Referenced(R, D)
    IN  /\ subs' = [c \in keep |-> R.subs[c]]
        /\ cov_subscriptions' = R.cov_subscriptions
        /\ active_cov_subscriptions' = R.active
        /\ asked' = [c \in keep |-> A[c]]
        /\ confirmed_notifications_queue' = D.queue
        /\ nextInvokeID' = D.nextInvokeID
        /\ sent' = D.sent
        /\ enq' = D.enq
        /\ txLog' = D.txLog
        /\ dropped' = D.dropped
        /\ passed' = D.passed
        /\ raised' = IF R.raised # None THEN R.raised ELSE D.raised
        /\ lastStep' = handler
        /\ notified' = D.notified
        /\ datatype' = datatype

\* ----------------------------------------------------- SubscribeCOV service
get_object_id(obj_id) == IF obj_id \in Objects THEN Some(obj_id) ELSE None

SubscribeRequests ==
    [pduSource : Addrs, subscriberProcessIdentifier : ProcIds,
     monitoredObjectIdentifier : ObjIds,
     issueConfirmedNotifications : { Some(b) : b \in BOOLEAN },
     lifetime : { Some(l) : l \in Lifetimes }]
CancelRequests ==
    [pduSource : Addrs, subscriberProcessIdentifier : ProcIds,
     monitoredObjectIdentifier : ObjIds,
     issueConfirmedNotifications : { None }, lifetime : { None }]

\* the subscription the request is about, if there is one
Match(apdu) ==
    IF apdu.monitoredObjectIdentifier \in Objects
    THEN find(cov_subscriptions[apdu.monitoredObjectIdentifier], apdu.pduSource,
              apdu.subscriberProcessIdentifier, apdu.monitoredObjectIdentifier)
    ELSE None

IsCancel(apdu) == (apdu.issueConfirmedNotifications = None) /\ (apdu.lifetime = None)

\* the request for an object that is not there acknowledged all the same
SubscribeOutcome_acks_unknown(apdu) ==
    LET client_addr == apdu.pduSource
        proc_id == apdu.subscriberProcessIdentifier
        obj_id == apdu.monitoredObjectIdentifier
        confirmed == apdu.issueConfirmedNotifications
        lifetime == apdu.lifetime
        cancel == (confirmed = None) /\ (lifetime = None)
        obj == get_object_id(obj_id)
    IN  IF obj = None
        THEN [R |-> Registry, reply |-> Some("SimpleAck")]
        ELSE LET cov == find(cov_subscriptions[obj[1]], client_addr, proc_id, obj_id)
             IN  [R |-> IF cov # None
                        THEN IF cancel
                             THEN cancel_subscription(Registry, cov[1])
                             ELSE renew_subscription(Registry, cov[1], lifetime[1])
                        ELSE IF cancel
                             THEN Registry
                             ELSE Subscription__init__(Registry, obj[1], client_addr,
                                      proc_id, obj_id, confirmed[1], lifetime[1]),
                  reply |-> Some("SimpleAck")]

\* the cancellation of a subscription that is not there answered with an error
SubscribeOutcome_cancel_unknown_errors(apdu) ==
    LET client_addr == apdu.pduSource
        proc_id == apdu.subscriberProcessIdentifier
        obj_id == apdu.monitoredObjectIdentifier
        confirmed == apdu.issueConfirmedNotifications
        lifetime == apdu.lifetime
        cancel == (confirmed = None) /\ (lifetime = None)
        obj == get_object_id(obj_id)
    IN  IF obj = None
        THEN [R |-> Registry, reply |-> Some("Error:unknownObject")]
        ELSE LET cov == find(cov_subscriptions[obj[1]], client_addr, proc_id, obj_id)
             IN  [R |-> IF cov # None
                        THEN IF cancel
                             THEN cancel_subscription(Registry, cov[1])
                             ELSE renew_subscription(Registry, cov[1], lifetime[1])
                        ELSE IF cancel
                             THEN Registry
                             ELSE Subscription__init__(Registry, obj[1], client_addr,
                                      proc_id, obj_id, confirmed[1], lifetime[1]),
                  reply |-> IF cov = None /\ cancel
                            THEN Some("Error:unknownSubscription")
                            ELSE Some("SimpleAck")]

\* the renewal taking over the mode the request asks for
SubscribeOutcome_renew_sets_confirmed(apdu) ==
    LET client_addr == apdu.pduSource
        proc_id == apdu.subscriberProcessIdentifier
        obj_id == apdu.monitoredObjectIdentifier
        confirmed == apdu.issueConfirmedNotifications
        lifetime == apdu.lifetime
        cancel == (confirmed = None) /\ (lifetime = None)
        obj == get_object_id(obj_id)
    IN  IF obj = None
        THEN [R |-> Registry, reply |-> Some("Error:unknownObject")]
        ELSE LET cov == find(cov_subscriptions[obj[1]], client_addr, proc_id, obj_id)
             IN  [R |-> IF cov # None
                        THEN IF cancel
                             THEN cancel_subscription(Registry, cov[1])
                             ELSE [renew_subscription(Registry, cov[1], lifetime[1])
                                      EXCEPT !.subs[cov[1]].confirmed = confirmed[1]]
                        ELSE IF cancel
                             THEN Registry
                             ELSE Subscription__init__(Registry, obj[1], client_addr,
                                      proc_id, obj_id, confirmed[1], lifetime[1]),
                  reply |-> Some("SimpleAck")]

\* the registry after the request, with the response given to the client
SubscribeOutcome(apdu) ==
    LET client_addr == apdu.pduSource
        proc_id == apdu.subscriberProcessIdentifier
        obj_id == apdu.monitoredObjectIdentifier
        confirmed == apdu.issueConfirmedNotifications
        lifetime == apdu.lifetime
        cancel == (confirmed = None) /\ (lifetime = None)
        obj == get_object_id(obj_id)
    IN  IF obj = None
        THEN [R |-> Registry, reply |-> Some("Error:unknownObject")]
        ELSE LET cov == find(cov_subscriptions[obj[1]], client_addr, proc_id, obj_id)
             IN  [R |-> IF cov # None
                        THEN IF cancel
                             THEN cancel_subscription(Registry, cov[1])
                             ELSE renew_subscription(Registry, cov[1], lifetime[1])
                        ELSE IF cancel
                             THEN Registry
                             ELSE Subscription__init__(Registry, obj[1], client_addr,
                                      proc_id, obj_id, confirmed[1], lifetime[1]),
                  reply |-> Some("SimpleAck")]

\* the lifetime and the mode a request asks for, and the time it runs out at
Asked(lifetime, confirmed) ==
    [lifetime |-> lifetime, confirmed |-> confirmed,
     due |-> IF lifetime = 0 THEN None ELSE Some(now + lifetime * TicksPerSecond)]

do_SubscribeCOVRequest(apdu) ==
    LET out == SubscribeOutcome(apdu)
        made == DOMAIN out.R.subs \ DOMAIN subs
        renewed == IF IsCancel(apdu) \/ Match(apdu) = None THEN {} ELSE { Match(apdu)[1] }
    IN  /\ made # {} => Cardinality(DOMAIN subs) < MaxSubs
        /\ Commit(out.R, Delivery,
                  [c \in DOMAIN out.R.subs |->
                      IF c \in made \cup renewed
                      THEN Asked(apdu.lifetime[1], apdu.issueConfirmedNotifications[1])
                      ELSE asked[c]],
                  IF ~ IsCancel(apdu) THEN "subscribe"
                  ELSE IF Match(apdu) = None THEN "cancel nothing" ELSE "cancel")
        /\ reply' = IF out.R.raised = None THEN out.reply ELSE None
        /\ checked' = None
        /\ UNCHANGED << now, values, cov_properties >>

\* the task manager runs a due task: it is taken off the schedule, then run
RunTask(self) ==
    /\ subs[self].isScheduled
    /\ subs[self].taskTime[1] <= now
    /\ Commit(process_task([Registry EXCEPT !.subs[self].isScheduled = FALSE], self),
              Delivery, asked, "expire")
    /\ reply' = None
    /\ checked' = None
    /\ UNCHANGED << now, values, cov_properties >>

\* time passes; a due task is run less than a second after it falls due
Tick ==
    /\ now < MaxTime
    /\ \A self \in DOMAIN subs :
           subs[self].isScheduled => now + 1 < subs[self].taskTime[1] + TicksPerSecond
    /\ now' = now + 1
    /\ Commit(Registry, Delivery, asked, "tick")
    /\ reply' = None
    /\ checked' = None
    /\ UNCHANGED << values, cov_properties >>

OnConfirmation(apdu) ==
    /\ Commit(Registry, confirmation(Delivery, apdu), asked, "confirmation")
    /\ reply' = None
    /\ checked' = None
    /\ UNCHANGED << now, values, cov_properties >>

\* the check of the criteria left out while the object has no subscription
write_hook_lazy(o, attr, value) ==
    LET vals == [values[o] EXCEPT ![attr] = value]
        tracked == attr \in Range(properties_tracked(o))
        missing == tracked /\ ~ has_check_criteria(o)
        crit == check_criteria(o, vals, cov_properties[o])
        D == IF missing
             THEN [Delivery EXCEPT !.raised = Some("AttributeError")]
             ELSE IF tracked /\ crit.changed
             THEN send_cov_notifications(Delivery, o, vals)
             ELSE Delivery
    IN  /\ SumOver(D.enq, Addrs) <= MaxEnq
        /\ values' = [values EXCEPT ![o] = vals]
        /\ cov_properties' = IF tracked /\ ~ missing /\ cov_subscriptions[o] # << >>
                             THEN [cov_properties EXCEPT ![o] = crit.cov_properties]
                             ELSE cov_properties
        /\ Commit(Registry, D, asked, "write")
        /\ reply' = None
        /\ checked' = IF tracked /\ ~ missing
                      THEN Some([obj |-> o, before |-> cov_properties[o],
                                 something_changed |-> crit.changed])
                      ELSE None
        /\ UNCHANGED now

\* the part __setattr__ and WriteProperty share: store, check, notify
write_hook(o, attr, value) ==
    LET vals == [values[o] EXCEPT ![attr] = value]
        tracked == attr \in Range(properties_tracked(o))
        missing == tracked /\ ~ has_check_criteria(o)
        crit == check_criteria(o, vals, cov_properties[o])
        D == IF missing
             THEN [Delivery EXCEPT !.raised = Some("AttributeError")]
             ELSE IF tracked /\ crit.changed
             THEN send_cov_notifications(Delivery, o, vals)
             ELSE Delivery
    IN  /\ SumOver(D.enq, Addrs) <= MaxEnq
        /\ values' = [values EXCEPT ![o] = vals]
        /\ cov_properties' = IF tracked /\ ~ missing
                             THEN [cov_properties EXCEPT ![o] = crit.cov_properties]
                             ELSE cov_properties
        /\ Commit(Registry, D, asked, "write")
        /\ reply' = None
        /\ checked' = IF tracked /\ ~ missing
                      THEN Some([obj |-> o, before |-> cov_properties[o],
                                 something_changed |-> crit.changed])
                      ELSE None
        /\ UNCHANGED now

\* ------------------------------------------------------------ specification
InitWith(objs, dt) ==
    /\ datatype = dt
    /\ now = 0
    /\ values = [o \in objs |-> InitialValues(o)]
    /\ cov_properties =
           [o \in objs |->
               [presentValue |-> InitialValues(o).presentValue,
                statusFlags |-> InitialValues(o).statusFlags]]
    /\ subs = << >>
    /\ cov_subscriptions = [o \in objs |-> << >>]
    /\ active_cov_subscriptions = << >>
    /\ confirmed_notifications_queue = << >>
    /\ nextInvokeID = 0
    /\ sent = << >>
    /\ reply = None
    /\ passed = FALSE
    /\ raised = None
    /\ enq = [a \in Addrs |-> 0]
    /\ txLog = [a \in Addrs |-> << >>]
    /\ dropped = [a \in Addrs |-> {}]
    /\ asked = << >>
    /\ lastStep = "init"
    /\ checked = None
    /\ notified = << >>

\* main(): every reported property of bvo and avo has its datatype
AllTyped == [o \in Objects |-> Range(properties_reported(o))]

Init == InitWith(Objects, AllTyped)

\* values written in the runs checked: o, property, value
Writes ==
    { << "avo", "presentValue", v >> : v \in {0, 1, 2} }
        \cup { << "bvo", "presentValue", v >> : v \in {0, 1} }
        \cup { << "bvo", "statusFlags", v >> : v \in {0, 1} }
        \cup { << "avo", "covIncrement", 2 >> }

Subscribe == \E apdu \in SubscribeRequests : do_SubscribeCOVRequest(apdu)
Cancel == \E apdu \in CancelRequests : do_SubscribeCOVRequest(apdu)
Expire == \E self \in DOMAIN subs : RunTask(self)
SetAttr == \E w \in Writes : write_hook(w[1], w[2], w[3])
WriteProperty == \E w \in Writes : write_hook(w[1], w[2], w[3])
Confirmation == \E apdu \in Apdus : OnConfirmation(apdu)

Next ==
    \/ Subscribe
    \/ Cancel
    \/ Expire
    \/ Tick
    \/ SetAttr
    \/ WriteProperty
    \/ Confirmation

Spec == Init /\ [][Next]_vars

\* ---------------------------------------------------------------- delivery
\* The queue of confirmed notifications at work: confirmed subscriptions that
\* never expire, two clients, both objects, every response type
DeliveryRequests ==
    { r \in SubscribeRequests :
        /\ r.lifetime = Some(0)
        /\ r.monitoredObjectIdentifier \in Objects
        /\ (r.pduSource = "c2" => r.monitoredObjectIdentifier = "avo")
        /\ r.issueConfirmedNotifications = Some(TRUE) }
DeliveryWrites ==
    { << "avo", "presentValue", v >> : v \in {0, 2} }
        \cup { << "bvo", "presentValue", v >> : v \in {0, 1} }

SubscribeD == \E apdu \in DeliveryRequests : do_SubscribeCOVRequest(apdu)
SetAttrD == \E w \in DeliveryWrites : write_hook(w[1], w[2], w[3])

NextDelivery ==
    \/ SubscribeD
    \/ SetAttrD
    \/ Confirmation

SpecDelivery == Init /\ [][NextDelivery]_vars

\* ---------------------------------------------------------------- registry
\* Subscriptions made, renewed, cancelled and expired as time passes, with
\* unconfirmed notifications reporting the time remaining
RegistryRequests ==
    { r \in SubscribeRequests :
        r.issueConfirmedNotifications = Some(FALSE) /\ r.pduSource = "c1" }
RegistryCancels == { r \in CancelRequests : r.pduSource = "c1" }
RegistryWrites == { << "bvo", "presentValue", v >> : v \in {0, 1} }

SubscribeR == \E apdu \in RegistryRequests : do_SubscribeCOVRequest(apdu)
CancelR == \E apdu \in RegistryCancels : do_SubscribeCOVRequest(apdu)
SetAttrR == \E w \in RegistryWrites : write_hook(w[1], w[2], w[3])

NextRegistry ==
    \/ SubscribeR
    \/ CancelR
    \/ Expire
    \/ Tick
    \/ SetAttrR

SpecRegistry == Init /\ [][NextRegistry]_vars

\* ---------------------------------------------------------------- criteria
\* The change criteria at work: the tracked properties and covIncrement of
\* both objects written through __setattr__ and WriteProperty
CriteriaWrites ==
    { << "avo", "presentValue", v >> : v \in 0 .. 4 }
        \cup { << "avo", "statusFlags", v >> : v \in {0, 1} }
        \cup { << "avo", "covIncrement", v >> : v \in {0, 1, 2} }
        \cup { << "bvo", "presentValue", v >> : v \in {0, 1} }
        \cup { << "bvo", "statusFlags", v >> : v \in {0, 1} }

SetAttrC == \E w \in CriteriaWrites : write_hook(w[1], w[2], w[3])
WritePropertyC == \E w \in CriteriaWrites : write_hook(w[1], w[2], w[3])

NextCriteria ==
    \/ SetAttrC
    \/ WritePropertyC

SpecCriteria == Init /\ [][NextCriteria]_vars

\* ------------------------------------------------------------ notification
\* Writes fanned out to the subscribers: subscriptions of two clients, one of
\* them confirmed, none of them expiring, the unconfirmed one of avo cancelled
\* at times, and no response coming back
NotifyRequests ==
    { r \in SubscribeRequests :
        /\ r.lifetime = Some(0)
        /\ r.monitoredObjectIdentifier \in Objects
        /\ (r.pduSource = "c2" => r.monitoredObjectIdentifier = "avo")
        /\ (r.issueConfirmedNotifications = Some(TRUE) =>
               r.pduSource = "c1" /\ r.monitoredObjectIdentifier = "avo") }
NotifyWrites ==
    { << "avo", "presentValue", v >> : v \in {0, 1, 2} }
        \cup { << "bvo", "presentValue", v >> : v \in {0, 1} }

NotifyCancels ==
    { r \in CancelRequests : r.pduSource = "c2" /\ r.monitoredObjectIdentifier = "avo" }

SubscribeN == \E apdu \in NotifyRequests : do_SubscribeCOVRequest(apdu)
CancelN == \E apdu \in NotifyCancels : do_SubscribeCOVRequest(apdu)
SetAttrN == \E w \in NotifyWrites : write_hook(w[1], w[2], w[3])

NextNotify ==
    \/ SubscribeN
    \/ CancelN
    \/ SetAttrN

SpecNotify == Init /\ [][NextNotify]_vars

\* ---------------------------------------------------------- time remaining
\* Subscriptions of one and of two seconds reporting the time they have left
\* as time passes
RemainingRequests ==
    [pduSource : {"c1"}, subscriberProcessIdentifier : ProcIds,
     monitoredObjectIdentifier : Objects,
     issueConfirmedNotifications : { Some(FALSE) },
     lifetime : { Some(1), Some(2) }]

SubscribeT == \E apdu \in RemainingRequests : do_SubscribeCOVRequest(apdu)

NextRemaining ==
    \/ SubscribeT
    \/ Expire
    \/ Tick
    \/ SetAttrR

SpecRemaining == Init /\ [][NextRemaining]_vars

\* ---------------------------------------------------------------- datatype
\* The notification scenario with an application whose bvo may lack the
\* datatype of a reported property
DatatypeConfigs ==
    { AllTyped, [AllTyped EXCEPT !["bvo"] = {"presentValue"}] }

InitDatatype == \E dt \in DatatypeConfigs : InitWith(Objects, dt)

SpecDatatype == InitDatatype /\ [][NextNotify]_vars

\* ---------------------------------------------------------- pulse converter
\* An application that also has a pulse converter object, its objects written
PulseObjects == Objects \cup {"pco"}
PulseWrites ==
    { << "pco", "presentValue", v >> : v \in {0, 1, 2} }
        \cup { << "pco", "statusFlags", v >> : v \in {0, 1} }
        \cup { << "avo", "presentValue", v >> : v \in {0, 1, 2} }
        \cup { << "bvo", "presentValue", v >> : v \in {0, 1} }

InitPulse ==
    InitWith(PulseObjects, [o \in PulseObjects |-> Range(properties_reported(o))])

SetAttrP == \E w \in PulseWrites : write_hook(w[1], w[2], w[3])
WritePropertyP == \E w \in PulseWrites : write_hook(w[1], w[2], w[3])

NextPulse ==
    \/ SetAttrP
    \/ WritePropertyP

SpecPulse == InitPulse /\ [][NextPulse]_vars

\* ---------------------------------------------------------------- liveness
\* Two confirmed subscribers of avo that answer: every request transmitted
\* gets, in time, a response with its invoke id that is not an abort
LiveRequests == { r \in DeliveryRequests : r.monitoredObjectIdentifier = "avo" }
LiveWrites == { w \in DeliveryWrites : w[1] = "avo" }

SubscribeL == \E apdu \in LiveRequests : do_SubscribeCOVRequest(apdu)
SetAttrL == \E w \in LiveWrites : write_hook(w[1], w[2], w[3])

RespondTo(a) ==
    \E apdu \in Apdus :
        /\ apdu.pduSource = a
        /\ apdu.type # "Abort"
        /\ ~ confirmation(Delivery, apdu).passed
        /\ OnConfirmation(apdu)

Respond == \E a \in Addrs : RespondTo(a)

NextLive ==
    \/ SubscribeL
    \/ SetAttrL
    \/ Respond

SpecLive ==
    /\ Init
    /\ [][NextLive]_vars
    /\ \A a \in Addrs : WF_vars(RespondTo(a))

\* ------------------------------------------------------- cancel and queue
\* Confirmed subscriptions of one client cancelled and expiring while their
\* notifications are pending
CancelQueueRequests ==
    [pduSource : {"c1"}, subscriberProcessIdentifier : ProcIds,
     monitoredObjectIdentifier : {"avo"},
     issueConfirmedNotifications : { Some(TRUE) },
     lifetime : { Some(1) }]
CancelQueueCancels ==
    { r \in CancelRequests :
        r.pduSource = "c1" /\ r.monitoredObjectIdentifier = "avo" }

\* the client subscribes before any time has passed
SubscribeQ ==
    /\ now = 0
    /\ \E apdu \in CancelQueueRequests : do_SubscribeCOVRequest(apdu)
CancelQ == \E apdu \in CancelQueueCancels : do_SubscribeCOVRequest(apdu)

NextCancelQueue ==
    \/ SubscribeQ
    \/ CancelQ
    \/ Expire
    \/ Tick
    \/ SetAttrL
    \/ Confirmation

SpecCancelQueue == Init /\ [][NextCancelQueue]_vars

\* ================================================================== claims
Pending(a) == Get(confirmed_notifications_queue, a)
Stamps(q) == { q[i].stamp : i \in DOMAIN q }
Transmitted(a, item) ==
    item.request.apduInvokeID # None \/ item.stamp \in Range(txLog[a])

\* the response is to the request at the head of its client's queue
MatchesHead(apdu) ==
    /\ apdu.pduSource \in DOMAIN confirmed_notifications_queue
    /\ Pending(apdu.pduSource) # << >>
    /\ Pending(apdu.pduSource)[1].request.apduInvokeID = Some(apdu.apduInvokeID)

C2_Fifo ==
    \A a \in Addrs :
        /\ \A i, j \in DOMAIN txLog[a] : i < j => txLog[a][i] < txLog[a][j]
        /\ \A i \in DOMAIN txLog[a] :
               \A earlier \in 1 .. (txLog[a][i] - 1) :
                   earlier \in Range(txLog[a]) \/ earlier \in dropped[a]
        /\ \A i \in DOMAIN txLog[a] :
               i < Len(txLog[a]) => txLog[a][i] \notin Stamps(Pending(a))

C2_Witness ==
    /\ lastStep = "confirmation"
    /\ Len(txLog["c1"]) >= 2
    /\ Len(Pending("c1")) >= 2
    /\ sent = << Pending("c1")[1].request >>
    /\ Pending("c1")[1].request.monitoredObjectIdentifier = "bvo"
    /\ Pending("c1")[2].request.monitoredObjectIdentifier = "avo"

\* C3: an abort for the head of a client's queue pops the head, discards the
\* rest of that client's queue without transmitting any of it, releases the
\* client's queue entry and leaves the queues of the other clients as they
\* were; a discarded request is never transmitted.
C3_Abort ==
    [][ /\ \A a \in Addrs : dropped'[a] \cap Range(txLog'[a]) = {}
        /\ \A apdu \in Apdus :
               (apdu.type = "Abort" /\ MatchesHead(apdu) /\ OnConfirmation(apdu)) =>
                   /\ apdu.pduSource \notin DOMAIN confirmed_notifications_queue'
                   /\ dropped'[apdu.pduSource] =
                          dropped[apdu.pduSource]
                              \cup Stamps(Tail(Pending(apdu.pduSource)))
                   /\ txLog' = txLog
                   /\ sent' = << >>
                   /\ \A b \in Addrs \ {apdu.pduSource} :
                          /\ b \in DOMAIN confirmed_notifications_queue'
                                 <=> b \in DOMAIN confirmed_notifications_queue
                          /\ Get(confirmed_notifications_queue', b) = Pending(b)
                          /\ dropped'[b] = dropped[b]
      ]_vars

C3_Witness ==
    /\ lastStep = "confirmation"
    /\ dropped["c1"] # {}
    /\ "c1" \notin DOMAIN confirmed_notifications_queue
    /\ sent = << >>
    /\ Len(Pending("c2")) >= 1

\* C4: an error, a reject or an acknowledgement for the head of a client's
\* queue removes the head and nothing else: the rest keeps its order, nothing
\* is discarded, and the new head, if there is one, is transmitted in the same
\* step.
C4_Advance ==
    [][ \A apdu \in Apdus :
            (apdu.type # "Abort" /\ MatchesHead(apdu) /\ OnConfirmation(apdu)) =>
                LET a == apdu.pduSource
                    rest == Tail(Pending(a))
                    after == Get(confirmed_notifications_queue', a)
                IN  /\ dropped' = dropped
                    /\ Len(after) = Len(rest)
                    /\ \A i \in DOMAIN rest :
                           /\ after[i].stamp = rest[i].stamp
                           /\ after[i].cov = rest[i].cov
                           /\ [after[i].request EXCEPT !.apduInvokeID = None]
                                  = [rest[i].request EXCEPT !.apduInvokeID = None]
                    /\ rest = << >> =>
                           /\ a \notin DOMAIN confirmed_notifications_queue'
                           /\ sent' = << >>
                           /\ txLog' = txLog
                    /\ rest # << >> =>
                           /\ after[1].request.apduInvokeID # None
                           /\ sent' = << after[1].request >>
                           /\ txLog' = [txLog EXCEPT ![a] = Append(@, rest[1].stamp)]
                           /\ \A i \in DOMAIN after :
                                  i > 1 => after[i].request.apduInvokeID = None
      ]_vars

C4_Witness ==
    /\ lastStep = "confirmation"
    /\ Len(Pending("c1")) >= 2
    /\ Len(txLog["c1"]) >= 2
    /\ dropped["c1"] = {}
    /\ sent = << Pending("c1")[1].request >>

Registered == Range(active_cov_subscriptions)
Triple(cov) == << cov.client_addr, cov.proc_id, cov.obj_id >>
Occurrences(s, x) == Cardinality({ i \in DOMAIN s : s[i] = x })

\* the subscribe request is for a triple that has a subscription: a renewal
Renews(apdu) ==
    /\ apdu \in SubscribeRequests
    /\ Match(apdu) # None
    /\ do_SubscribeCOVRequest(apdu)

\* C5: a subscribe request for the triple of an existing subscription renews
\* it: afterwards its stored lifetime is the lifetime requested and it is due
\* that long after the renewal, or never if the lifetime requested is 0.
C5_Renewal ==
    [][ \A apdu \in SubscribeRequests :
            Renews(apdu) =>
                LET c == Match(apdu)[1]
                    lifetime == apdu.lifetime[1]
                IN  /\ c \in DOMAIN subs'
                    /\ active_cov_subscriptions' = active_cov_subscriptions
                    /\ subs'[c].lifetime = lifetime
                    /\ lifetime = 0 => ~ subs'[c].isScheduled
                    /\ lifetime # 0 =>
                           /\ subs'[c].isScheduled
                           /\ subs'[c].taskTime = Some(now + lifetime * TicksPerSecond)
      ]_vars

\* the time remaining reported for a subscription agrees with the lifetime
\* last requested for it
AgreesWithAsked(c, timeRemaining) ==
    /\ asked[c].lifetime = 0 => timeRemaining = 0
    /\ asked[c].lifetime # 0 => timeRemaining >= 1

\* C6: every notification sent and every summary read reports time remaining
\* 0 for a registered subscription whose lifetime in effect is 0 and at least
\* 1 for one whose lifetime in effect is not 0.
C6_TimeRemaining ==
    /\ \A i \in DOMAIN active_cov_subscriptions :
           AgreesWithAsked(active_cov_subscriptions[i],
                           ActiveCOVSubscriptions_ReadProperty[i].timeRemaining)
    /\ \A i \in DOMAIN sent :
           \A c \in Registered :
               Triple(subs[c]) = << sent[i].pduDestination,
                                    sent[i].subscriberProcessIdentifier,
                                    sent[i].monitoredObjectIdentifier >>
                   => AgreesWithAsked(c, sent[i].timeRemaining)

\* C7: the registry never holds two subscriptions with the same client,
\* process identifier and object.
C7_OnePerTriple ==
    /\ \A i, j \in DOMAIN active_cov_subscriptions :
           i # j => Triple(subs[active_cov_subscriptions[i]])
                        # Triple(subs[active_cov_subscriptions[j]])
    /\ \A o \in Objects :
           \A i, j \in DOMAIN cov_subscriptions[o] :
               i # j => Triple(subs[cov_subscriptions[o][i]])
                            # Triple(subs[cov_subscriptions[o][j]])

C7_Witness ==
    /\ lastStep = "subscribe"
    /\ Len(active_cov_subscriptions) = 2
    /\ \E c \in Registered : subs[c].lifetime = 0 /\ subs[c].isScheduled

\* C8: a subscription is once in the list of its object and once in the list
\* of all active subscriptions, or in no list at all; the list of all active
\* subscriptions holds what the lists of the objects hold, and nothing else.
C8_BothLists ==
    /\ Registered \subseteq DOMAIN subs
    /\ \A o \in Objects : Range(cov_subscriptions[o]) \subseteq DOMAIN subs
    /\ \A c \in DOMAIN subs :
           \/ /\ subs[c].obj_ref # None
              /\ Occurrences(active_cov_subscriptions, c) = 1
              /\ \A o \in Objects :
                     Occurrences(cov_subscriptions[o], c)
                         = IF subs[c].obj_ref = Some(o) THEN 1 ELSE 0
           \/ /\ subs[c].obj_ref = None
              /\ Occurrences(active_cov_subscriptions, c) = 0
              /\ \A o \in Objects : Occurrences(cov_subscriptions[o], c) = 0
    /\ Len(active_cov_subscriptions)
           = SumOver([o \in Objects |-> Len(cov_subscriptions[o])], Objects)

C8_Witness ==
    /\ lastStep \in {"cancel", "expire"}
    /\ Len(active_cov_subscriptions) = 1
    /\ \E o \in Objects : cov_subscriptions[o] = << >>
    /\ DOMAIN subs = {2}

\* C9: a subscription made with a lifetime other than 0 is due that long
\* after it is made and one made with lifetime 0 is not on the schedule; a
\* subscription leaves the lists only when it is cancelled or when its task
\* runs; the task runs no earlier than the time it is due and less than a
\* second after, takes the subscription out of both lists and out of the
\* summaries read, and sends nothing.
C9_Expiry ==
    [][ /\ \A apdu \in SubscribeRequests :
               ( /\ apdu.monitoredObjectIdentifier \in Objects
                 /\ Match(apdu) = None
                 /\ do_SubscribeCOVRequest(apdu) ) =>
                   LET c == NewId(subs)
                       lifetime == apdu.lifetime[1]
                   IN  /\ c \in Range(active_cov_subscriptions')
                       /\ c \in Range(cov_subscriptions'[apdu.monitoredObjectIdentifier])
                       /\ lifetime = 0 => ~ subs'[c].isScheduled
                       /\ lifetime # 0 =>
                              /\ subs'[c].isScheduled
                              /\ subs'[c].taskTime = Some(now + lifetime * TicksPerSecond)
        /\ \A c \in DOMAIN subs :
               RunTask(c) =>
                   /\ c \in Registered
                   /\ asked[c].lifetime # 0
                   /\ asked[c].due[1] <= now
                   /\ now < asked[c].due[1] + TicksPerSecond
                   /\ c \notin Range(active_cov_subscriptions')
                   /\ \A o \in Objects : c \notin Range(cov_subscriptions'[o])
                   /\ \A i \in DOMAIN ActiveCOVSubscriptions_ReadProperty' :
                          LET summary == ActiveCOVSubscriptions_ReadProperty'[i]
                          IN  << summary.recipient.address,
                                 summary.recipient.processIdentifier,
                                 summary.monitoredPropertyReference.objectIdentifier >>
                                  # Triple(subs[c])
                   /\ sent' = << >>
                   /\ confirmed_notifications_queue' = confirmed_notifications_queue
        /\ \A c \in Registered :
               c \notin Range(active_cov_subscriptions') =>
                   \/ RunTask(c)
                   \/ \E apdu \in CancelRequests :
                          Match(apdu) = Some(c) /\ do_SubscribeCOVRequest(apdu)
        /\ \A c \in Range(active_cov_subscriptions') :
               subs'[c].isScheduled => now' < subs'[c].taskTime[1] + TicksPerSecond
      ]_vars

C9_Witness ==
    /\ lastStep = "expire"
    /\ now >= TicksPerSecond
    /\ raised = None
    /\ Len(active_cov_subscriptions) = 1
    /\ \E c \in Registered : asked[c].lifetime = 0

\* C10: the task of a subscription runs only while the subscription is
\* registered and no earlier than the time its latest request made it due;
\* whatever is on the schedule is registered and due at the time its latest
\* request set, so a cancelled or expired subscription is never run again.
C10_NoStaleTask ==
    [][ /\ \A c \in DOMAIN subs :
               RunTask(c) =>
                   /\ c \in Registered
                   /\ subs[c].obj_ref # None
                   /\ asked[c].due # None
                   /\ asked[c].due[1] <= now
                   /\ raised' = None
                   /\ (c \in DOMAIN subs' => ~ subs'[c].isScheduled)
        /\ \A c \in DOMAIN subs' :
               /\ subs'[c].isScheduled =>
                      /\ c \in Range(active_cov_subscriptions')
                      /\ asked'[c].due = subs'[c].taskTime
               /\ asked'[c].due = None => ~ subs'[c].isScheduled
      ]_vars

C10_Witness ==
    /\ lastStep = "tick"
    /\ \E c \in Registered :
           /\ ~ subs[c].isScheduled
           /\ subs[c].taskTime # None
           /\ subs[c].taskTime[1] <= now

\* the tracked properties of o
Tracked(o) == Range(properties_tracked(o))

\* the property differs from its snapshot under the comparison rule of o
Differs(o, name, vals, snap) ==
    IF ObjectClass(o) = "COVIncrementCriteria" /\ name = "presentValue"
    THEN \/ vals.presentValue <= snap.presentValue - vals.covIncrement
         \/ vals.presentValue >= snap.presentValue + vals.covIncrement
    ELSE vals[name] # snap[name]

\* the step writes a tracked property, so that the criteria are evaluated
Evaluates(w) == w[2] \in Tracked(w[1]) /\ write_hook(w[1], w[2], w[3])

\* C11: an evaluation reports changed exactly when a tracked property differs
\* from its snapshot under the comparison rule of the object; the snapshot
\* then holds the current value of every property that differed and is as it
\* was for every property that did not.
C11_Evaluate ==
    [][ \A w \in CriteriaWrites :
            Evaluates(w) =>
                LET o == w[1]
                    vals == [values[o] EXCEPT ![w[2]] = w[3]]
                    snap == cov_properties[o]
                    differing == { n \in Tracked(o) : Differs(o, n, vals, snap) }
                IN  /\ checked' # None
                    /\ checked'[1].obj = o
                    /\ checked'[1].something_changed = (differing # {})
                    /\ \A n \in Tracked(o) :
                           cov_properties'[o][n] =
                               IF n \in differing THEN vals[n] ELSE snap[n]
                    /\ \A other \in Objects \ {o} :
                           cov_properties'[other] = cov_properties[other]
      ]_vars

C11_Witness ==
    /\ checked # None
    /\ checked[1].obj = "avo"
    /\ checked[1].something_changed
    /\ checked[1].before.statusFlags # values["avo"].statusFlags
    /\ cov_properties["avo"].statusFlags = values["avo"].statusFlags
    /\ cov_properties["avo"].presentValue = checked[1].before.presentValue
    /\ cov_properties["avo"].presentValue # values["avo"].presentValue

\* C12: after an evaluation that reports changed the snapshot holds the
\* current value of every tracked property, whatever the criteria.
C12_SnapshotCurrent ==
    (checked # None /\ checked[1].something_changed) =>
        \A n \in Tracked(checked[1].obj) :
            cov_properties[checked[1].obj][n] = values[checked[1].obj][n]

\* C13: with covIncrement 0 the increment criteria report changed exactly
\* when the present value or the status flags are not equal to their snapshot.
C13_ZeroIncrement ==
    [][ \A w \in CriteriaWrites :
            ( /\ Evaluates(w)
              /\ ObjectClass(w[1]) = "COVIncrementCriteria"
              /\ values[w[1]].covIncrement = 0 ) =>
                LET o == w[1]
                    vals == [values[o] EXCEPT ![w[2]] = w[3]]
                    snap == cov_properties[o]
                IN  checked'[1].something_changed =
                        ( \/ vals.presentValue # snap.presentValue
                          \/ vals.statusFlags # snap.statusFlags )
      ]_vars

\* C14: an evaluation that follows an evaluation of the same object with no
\* value changed in between returns false and leaves the snapshot as it is.
C14_Idempotent ==
    [][ \A w \in CriteriaWrites :
            ( /\ Evaluates(w)
              /\ checked # None
              /\ checked[1].obj = w[1]
              /\ values[w[1]][w[2]] = w[3] ) =>
                /\ checked'[1].something_changed = FALSE
                /\ cov_properties' = cov_properties
      ]_vars

\* C15: with covIncrement above 0 a present value at the snapshot plus or
\* minus the increment is reported changed, and one strictly inside is
\* reported changed only if the status flags differ.
C15_Boundary ==
    [][ \A w \in CriteriaWrites :
            ( /\ Evaluates(w)
              /\ ObjectClass(w[1]) = "COVIncrementCriteria"
              /\ values[w[1]].covIncrement > 0 ) =>
                LET o == w[1]
                    vals == [values[o] EXCEPT ![w[2]] = w[3]]
                    snap == cov_properties[o]
                    low == snap.presentValue - vals.covIncrement
                    high == snap.presentValue + vals.covIncrement
                    v == vals.presentValue
                IN  /\ v \in {low, high} => checked'[1].something_changed
                    /\ (low < v /\ v < high) =>
                           ( checked'[1].something_changed
                                 = (vals.statusFlags # snap.statusFlags) )
                    /\ (low < v /\ v < high) =>
                           cov_properties'[o].presentValue = snap.presentValue
      ]_vars

C15_Witness ==
    /\ checked # None
    /\ checked[1].obj = "avo"
    /\ checked[1].something_changed
    /\ values["avo"].covIncrement = 2
    /\ checked[1].before.presentValue = 2
    /\ values["avo"].presentValue = 0
    /\ checked[1].before.statusFlags = values["avo"].statusFlags

\* the values a notification of o carries when o holds vals
Payload(vals) ==
    << [propertyIdentifier |-> "presentValue", value |-> vals.presentValue],
       [propertyIdentifier |-> "statusFlags", value |-> vals.statusFlags] >>

\* how many subscriptions of covs are confirmed ones of client a
ConfirmedFor(covs, a) ==
    Cardinality({ i \in DOMAIN covs :
                    subs[covs[i]].confirmed /\ subs[covs[i]].client_addr = a })

\* C16: a write of a tracked property that the criteria report as changed
\* calls cov_notification once for every subscription of the object, in the
\* order they were registered, each with the same values, those the object
\* holds after the write, and for no subscription of another object; a write
\* not reported as changed calls it for none.
C16_FanOut ==
    [][ \A w \in NotifyWrites :
            write_hook(w[1], w[2], w[3]) =>
                LET o == w[1]
                    vals == [values[o] EXCEPT ![w[2]] = w[3]]
                    covs == cov_subscriptions[o]
                IN  IF checked' # None /\ checked'[1].something_changed
                    THEN /\ Len(notified') = Len(covs)
                         /\ \A i \in DOMAIN covs :
                                /\ notified'[i].cov = covs[i]
                                /\ subs[covs[i]].obj_ref = Some(o)
                                /\ notified'[i].request.listOfValues = Payload(vals)
                                /\ notified'[i].request.monitoredObjectIdentifier = o
                                /\ notified'[i].request.pduDestination
                                       = subs[covs[i]].client_addr
                                /\ notified'[i].request.subscriberProcessIdentifier
                                       = subs[covs[i]].proc_id
                                /\ notified'[i].request.confirmed = subs[covs[i]].confirmed
                         /\ \A a \in Addrs :
                                Len(Get(confirmed_notifications_queue', a))
                                    = Len(Pending(a)) + ConfirmedFor(covs, a)
                         /\ Cardinality({ i \in DOMAIN sent' : ~ sent'[i].confirmed })
                                = Cardinality({ i \in DOMAIN covs : ~ subs[covs[i]].confirmed })
                    ELSE /\ notified' = << >>
                         /\ sent' = << >>
                         /\ confirmed_notifications_queue' = confirmed_notifications_queue
      ]_vars

C16_Witness ==
    /\ lastStep = "write"
    /\ Len(notified) = 2
    /\ notified[1].request.confirmed # notified[2].request.confirmed
    /\ notified[1].request.monitoredObjectIdentifier = "avo"
    /\ cov_subscriptions["bvo"] # << >>

\* the only subscriber of avo is c, confirmed, never expiring, with nothing
\* pending for its client, and avo has reported present value 0.0
SingleIdleSubscriber(c) ==
    /\ cov_subscriptions["avo"] = << c >>
    /\ subs[c].confirmed
    /\ subs[c].lifetime = 0
    /\ asked[c].lifetime = 0
    /\ subs[c].client_addr \notin DOMAIN confirmed_notifications_queue
    /\ values["avo"].covIncrement = 2
    /\ values["avo"].statusFlags = cov_properties["avo"].statusFlags
    /\ cov_properties["avo"].presentValue = 0

\* C17: avo has covIncrement 1.0 and present value 0.0 and one subscriber,
\* confirmed, lifetime 0, nothing pending: writing 0.5 sends and queues
\* nothing, and writing 1.0 after it sends the subscriber one notification
\* with present value 1.0 and time remaining 0.
C17_EndToEnd ==
    [][ \A c \in DOMAIN subs :
            /\ ( /\ SingleIdleSubscriber(c)
                 /\ values["avo"].presentValue = 0
                 /\ write_hook("avo", "presentValue", 1) ) =>
                    /\ sent' = << >>
                    /\ notified' = << >>
                    /\ confirmed_notifications_queue' = confirmed_notifications_queue
                    /\ enq' = enq
                    /\ SingleIdleSubscriber(c)'
                    /\ values'["avo"].presentValue = 1
            /\ ( /\ SingleIdleSubscriber(c)
                 /\ values["avo"].presentValue = 1
                 /\ write_hook("avo", "presentValue", 2) ) =>
                    LET S == subs[c].client_addr
                    IN  /\ Len(sent') = 1
                        /\ Len(notified') = 1
                        /\ sent'[1].confirmed
                        /\ sent'[1].pduDestination = S
                        /\ sent'[1].subscriberProcessIdentifier = subs[c].proc_id
                        /\ sent'[1].monitoredObjectIdentifier = "avo"
                        /\ sent'[1].timeRemaining = 0
                        /\ sent'[1].listOfValues[1]
                               = [propertyIdentifier |-> "presentValue", value |-> 2]
                        /\ DOMAIN confirmed_notifications_queue'
                               = DOMAIN confirmed_notifications_queue \cup {S}
                        /\ Len(confirmed_notifications_queue'[S]) = 1
                        /\ confirmed_notifications_queue'[S][1].request = sent'[1]
                        /\ \A a \in DOMAIN confirmed_notifications_queue :
                               confirmed_notifications_queue'[a]
                                   = confirmed_notifications_queue[a]
      ]_vars

C17_Witness ==
    /\ lastStep = "write"
    /\ checked # None
    /\ checked[1].obj = "avo"
    /\ checked[1].something_changed
    /\ checked[1].before.presentValue = 0
    /\ values["avo"].presentValue = 2
    /\ Len(cov_subscriptions["avo"]) = 1
    /\ Len(sent) = 1
    /\ sent[1].timeRemaining = 0
    /\ sent[1].confirmed
    /\ enq[sent[1].pduDestination] = 1

\* C18: a subscribe request for an object the application does not have is
\* answered with the error unknownObject and changes nothing: no subscription
\* is made, nothing is scheduled, the lists and the queues are as they were.
C18_UnknownObject ==
    [][ \A apdu \in SubscribeRequests :
            ( /\ apdu.monitoredObjectIdentifier \notin Objects
              /\ do_SubscribeCOVRequest(apdu) ) =>
                /\ reply' = Some("Error:unknownObject")
                /\ raised' = None
                /\ subs' = subs
                /\ cov_subscriptions' = cov_subscriptions
                /\ active_cov_subscriptions' = active_cov_subscriptions
                /\ confirmed_notifications_queue' = confirmed_notifications_queue
                /\ sent' = << >>
                /\ notified' = << >>
      ]_vars

C18_Witness ==
    /\ lastStep = "subscribe"
    /\ reply = Some("Error:unknownObject")
    /\ \E c \in Registered : subs[c].isScheduled

\* the sequence s without x
Without(s, x) == SelectSeq(s, LAMBDA y : y # x)

\* C19: a cancellation for a triple that has no subscription, on an object
\* the application has, is acknowledged, raises nothing and changes nothing;
\* a cancellation for a triple that has one takes that subscription out of
\* both lists and off the schedule and leaves every other one as it was.
C19_Cancel ==
    [][ \A apdu \in CancelRequests :
            ( /\ apdu.monitoredObjectIdentifier \in Objects
              /\ do_SubscribeCOVRequest(apdu) ) =>
                /\ reply' = Some("SimpleAck")
                /\ raised' = None
                /\ sent' = << >>
                /\ confirmed_notifications_queue' = confirmed_notifications_queue
                /\ Match(apdu) = None =>
                       /\ subs' = subs
                       /\ cov_subscriptions' = cov_subscriptions
                       /\ active_cov_subscriptions' = active_cov_subscriptions
                /\ Match(apdu) # None =>
                       LET c == Match(apdu)[1]
                       IN  /\ Triple(subs[c]) = << apdu.pduSource,
                                                   apdu.subscriberProcessIdentifier,
                                                   apdu.monitoredObjectIdentifier >>
                           /\ active_cov_subscriptions'
                                  = Without(active_cov_subscriptions, c)
                           /\ Len(active_cov_subscriptions')
                                  = Len(active_cov_subscriptions) - 1
                           /\ \A o \in Objects :
                                  cov_subscriptions'[o] = Without(cov_subscriptions[o], c)
                           /\ c \in DOMAIN subs' =>
                                  ~ subs'[c].isScheduled /\ subs'[c].obj_ref = None
                           /\ \A other \in Registered \ {c} : subs'[other] = subs[other]
      ]_vars

C19_Witness ==
    /\ lastStep = "cancel nothing"
    /\ reply = Some("SimpleAck")
    /\ \E c \in Registered : subs[c].isScheduled

\* C20: a response from a client that has no queue, or with an invoke id
\* other than that of the head of the client's queue, is passed on to the
\* application and changes nothing: nothing is popped, discarded or
\* transmitted and no queue is made for the client.
C20_Unmatched ==
    [][ \A apdu \in Apdus :
            (~ MatchesHead(apdu) /\ OnConfirmation(apdu)) =>
                /\ passed'
                /\ raised' = None
                /\ confirmed_notifications_queue' = confirmed_notifications_queue
                /\ sent' = << >>
                /\ txLog' = txLog
                /\ dropped' = dropped
                /\ nextInvokeID' = nextInvokeID
                /\ subs' = subs
      ]_vars

C20_Witness ==
    /\ lastStep = "confirmation"
    /\ passed
    /\ Len(Pending("c1")) >= 2
    /\ "c2" \notin DOMAIN confirmed_notifications_queue

\* the seconds in d ticks, rounded up
CeilSeconds(d) == 0 - ((0 - d) \div TicksPerSecond)

\* the time remaining the claim gives a subscription that expires
AtLeastOneCeil(c) ==
    LET left == CeilSeconds(subs[c].taskTime[1] - now)
    IN  IF left < 1 THEN 1 ELSE left

\* C21: for a subscription that expires, the time remaining in a notification
\* and in the summary read is the time left until it is due, rounded up to a
\* whole second, and 1 when that is less than 1.
C21_CeilRemaining ==
    /\ \A i \in DOMAIN active_cov_subscriptions :
           LET c == active_cov_subscriptions[i]
           IN  (subs[c].lifetime # 0 /\ asked[c].lifetime # 0) =>
                   ActiveCOVSubscriptions_ReadProperty[i].timeRemaining
                       = AtLeastOneCeil(c)
    /\ \A i \in DOMAIN notified :
           LET c == notified[i].cov
           IN  (subs[c].lifetime # 0 /\ asked[c].lifetime # 0) =>
                   notified[i].request.timeRemaining = AtLeastOneCeil(c)

\* C22: a renewal leaves the confirmed flag of the subscription as it was
\* made, whatever mode the request asks for: the flag of a registered
\* subscription never changes, a new subscription takes the flag of its
\* request, and every notification goes out in the mode of its subscription.
C22_ConfirmedKept ==
    [][ /\ \A c \in Registered \cap Range(active_cov_subscriptions') :
               subs'[c].confirmed = subs[c].confirmed
        /\ \A apdu \in NotifyRequests :
               /\ Renews(apdu) =>
                      LET c == Match(apdu)[1]
                      IN  /\ subs'[c].confirmed = subs[c].confirmed
                          /\ asked'[c].confirmed = apdu.issueConfirmedNotifications[1]
               /\ (Match(apdu) = None /\ do_SubscribeCOVRequest(apdu)) =>
                      subs'[NewId(subs)].confirmed = apdu.issueConfirmedNotifications[1]
        /\ \A i \in DOMAIN notified' :
               /\ notified'[i].request.confirmed = subs[notified'[i].cov].confirmed
               /\ notified'[i].request.confirmed =>
                      \E k \in DOMAIN Get(confirmed_notifications_queue',
                                          notified'[i].request.pduDestination) :
                          confirmed_notifications_queue'
                              [notified'[i].request.pduDestination][k].cov
                                  = notified'[i].cov
               /\ ~ notified'[i].request.confirmed =>
                      \E k \in DOMAIN sent' : sent'[k] = notified'[i].request
      ]_vars

C22_Witness ==
    /\ lastStep = "write"
    /\ \E i \in DOMAIN notified :
           /\ ~ notified[i].request.confirmed
           /\ asked[notified[i].cov].confirmed
           /\ notified[i].request \in Range(sent)

\* C23: a notification for an unconfirmed subscription goes to the stack in
\* the step that makes it and into no queue, whether or not its client has
\* confirmed notifications pending; the queue of its client is changed only
\* by the confirmed notifications of the same step.
C23_Unconfirmed ==
    [][ /\ \A a \in DOMAIN confirmed_notifications_queue' :
               \A k \in DOMAIN confirmed_notifications_queue'[a] :
                   confirmed_notifications_queue'[a][k].request.confirmed
        /\ Cardinality({ i \in DOMAIN notified' : ~ notified'[i].request.confirmed })
               = Cardinality({ k \in DOMAIN sent' : ~ sent'[k].confirmed })
        /\ \A i \in DOMAIN notified' :
               ~ notified'[i].request.confirmed =>
                   LET a == notified'[i].request.pduDestination
                       confirmedToo ==
                           { j \in DOMAIN notified' :
                               /\ notified'[j].request.confirmed
                               /\ notified'[j].request.pduDestination = a }
                   IN  /\ \E k \in DOMAIN sent' : sent'[k] = notified'[i].request
                       /\ notified'[i].request.apduInvokeID = None
                       /\ Len(Get(confirmed_notifications_queue', a))
                              = Len(Pending(a)) + Cardinality(confirmedToo)
                       /\ confirmedToo = {} =>
                              /\ Get(confirmed_notifications_queue', a) = Pending(a)
                              /\ (a \in DOMAIN confirmed_notifications_queue'
                                     <=> a \in DOMAIN confirmed_notifications_queue)
                              /\ txLog'[a] = txLog[a]
      ]_vars

C23_Witness ==
    /\ lastStep = "write"
    /\ Len(Pending("c1")) >= 2
    /\ \E i \in DOMAIN notified :
           /\ ~ notified[i].request.confirmed
           /\ notified[i].request.pduDestination = "c1"
           /\ notified[i].request \in Range(sent)

\* a reported property of o has no datatype
Untyped(o) == \E n \in Range(properties_reported(o)) : n \notin datatype[o]

\* C24: when the values of a notification cannot be built because a reported
\* property of the object has no datatype, the write raises, nothing is sent
\* or queued for any subscriber, and the lists, the tasks and the queues are
\* as they were; writes to the other objects notify as usual.
C24_DatatypeError ==
    [][ \A w \in NotifyWrites :
            ( /\ write_hook(w[1], w[2], w[3])
              /\ checked' # None
              /\ checked'[1].something_changed
              /\ cov_subscriptions[w[1]] # << >> ) =>
                IF Untyped(w[1])
                THEN /\ raised' # None
                     /\ sent' = << >>
                     /\ notified' = << >>
                     /\ confirmed_notifications_queue' = confirmed_notifications_queue
                     /\ enq' = enq
                     /\ txLog' = txLog
                     /\ subs' = subs
                     /\ cov_subscriptions' = cov_subscriptions
                     /\ active_cov_subscriptions' = active_cov_subscriptions
                ELSE /\ raised' = None
                     /\ Len(notified') = Len(cov_subscriptions[w[1]])
      ]_vars

C24_Witness ==
    /\ lastStep = "write"
    /\ raised = Some("DatatypeResolutionError")
    /\ checked # None
    /\ checked[1].obj = "bvo"
    /\ cov_subscriptions["bvo"] # << >>
    /\ Len(Pending("c1")) >= 1
    /\ sent = << >>

\* C25: a client has an entry in the queue exactly when it has requests
\* pending: no entry holds an empty list, so the head that confirmation peeks
\* at is always there.
C25_EntryIffPending ==
    /\ \A a \in DOMAIN confirmed_notifications_queue :
           confirmed_notifications_queue[a] # << >>
    /\ \A a \in Addrs :
           a \in DOMAIN confirmed_notifications_queue <=> Len(Pending(a)) > 0
    /\ raised # Some("IndexError")

C25_Witness ==
    /\ lastStep = "confirmation"
    /\ ~ passed
    /\ "c1" \notin DOMAIN confirmed_notifications_queue
    /\ txLog["c1"] # << >>
    /\ dropped["c1"] = {}
    /\ "c2" \in DOMAIN confirmed_notifications_queue

\* C26: a write of a tracked property of any object, the pulse converter
\* included, runs the criteria of the object and ends without an error.
C26_CriteriaBound ==
    [][ \A w \in PulseWrites :
            (w[2] \in Tracked(w[1]) /\ write_hook(w[1], w[2], w[3])) =>
                /\ raised' = None
                /\ checked' # None
                /\ checked'[1].obj = w[1]
      ]_vars

\* C27: with every transmitted request answered in time by a matching
\* response that is not an abort, every confirmed notification queued for a
\* client is transmitted in the end and, the writes being finitely many, the
\* queues end up empty for good; a head leaves its queue only in a step of
\* confirmation that takes its response.
C27_Liveness ==
    /\ \A a \in Addrs :
           \A s \in 1 .. (MaxEnq + 1) :
               (s \in Stamps(Pending(a))) ~> (s \in Range(txLog[a]))
    /\ <>[](DOMAIN confirmed_notifications_queue = {})
    /\ [][ \A a \in DOMAIN confirmed_notifications_queue :
               ( \/ a \notin DOMAIN confirmed_notifications_queue'
                 \/ confirmed_notifications_queue'[a][1].stamp
                        # confirmed_notifications_queue[a][1].stamp ) =>
                   /\ lastStep' = "confirmation"
                   /\ ~ passed'
                   /\ confirmed_notifications_queue[a][1].request.apduInvokeID # None
          ]_vars

C27_Witness ==
    /\ lastStep = "confirmation"
    /\ DOMAIN confirmed_notifications_queue = {}
    /\ Len(txLog["c1"]) >= 2
    /\ Len(txLog["c2"]) >= 1
    /\ \A a \in Addrs : dropped[a] = {}

\* the step leaves the queues and what was transmitted and discarded alone
QueuesUntouched ==
    /\ confirmed_notifications_queue' = confirmed_notifications_queue
    /\ sent' = << >>
    /\ txLog' = txLog
    /\ dropped' = dropped
    /\ nextInvokeID' = nextInvokeID

\* C28: cancelling a subscription, or its expiry, leaves every queue as it
\* is; the pending notifications of a subscription that has left the lists
\* stay in their order, their responses are taken as any other, and the next
\* one is transmitted when the response to the head has been taken.
C28_CancelKeepsQueue ==
    [][ /\ lastStep' \in {"cancel", "cancel nothing", "expire"} => QueuesUntouched
        /\ \A apdu \in Apdus :
               ( /\ MatchesHead(apdu)
                 /\ Pending(apdu.pduSource)[1].cov \notin Registered
                 /\ OnConfirmation(apdu) ) =>
                   LET a == apdu.pduSource
                       rest == Tail(Pending(a))
                       after == Get(confirmed_notifications_queue', a)
                   IN  /\ ~ passed'
                       /\ raised' = None
                       /\ apdu.type = "Abort" =>
                              /\ after = << >>
                              /\ dropped'[a] = dropped[a] \cup Stamps(rest)
                       /\ apdu.type # "Abort" =>
                              /\ Len(after) = Len(rest)
                              /\ \A i \in DOMAIN rest :
                                     /\ after[i].stamp = rest[i].stamp
                                     /\ after[i].cov = rest[i].cov
                              /\ dropped' = dropped
                              /\ rest # << >> =>
                                     /\ sent' = << after[1].request >>
                                     /\ after[1].request.apduInvokeID # None
                                     /\ txLog'[a] = Append(txLog[a], rest[1].stamp)
        /\ \A a \in Addrs :
               \A i, j \in DOMAIN txLog'[a] : i < j => txLog'[a][i] < txLog'[a][j]
      ]_vars

C28_Witness ==
    /\ lastStep = "confirmation"
    /\ Len(txLog["c1"]) >= 2
    /\ Len(Pending("c1")) >= 1
    /\ Pending("c1")[1].cov \notin Registered
    /\ sent = << Pending("c1")[1].request >>

\* C29: a write that changes an object without subscriptions advances the
\* snapshot and sends nothing; making or renewing a subscription sends
\* nothing and leaves the snapshots alone; a write to an object with
\* subscriptions notifies them exactly when the values differ from the
\* snapshot as it then is, so that a new subscription hears nothing of a
\* change made before it.
C29_NoCatchUp ==
    [][ /\ (lastStep' = "write" /\ checked' # None) =>
               LET o == checked'[1].obj
                   vals == values'[o]
                   snap == cov_properties[o]
                   differing == { n \in Tracked(o) : Differs(o, n, vals, snap) }
               IN  IF cov_subscriptions[o] = << >>
                   THEN /\ \A n \in differing : cov_properties'[o][n] = vals[n]
                        /\ notified' = << >>
                        /\ QueuesUntouched
                   ELSE (notified' # << >>) = (differing # {})
        /\ lastStep' = "subscribe" =>
               /\ notified' = << >>
               /\ cov_properties' = cov_properties
               /\ QueuesUntouched
      ]_vars

\* a confirmed subscriber of avo that has been sent nothing sees a write of
\* the value the snapshot took before, and is sent nothing for it
C29_Witness ==
    /\ lastStep = "write"
    /\ Len(cov_subscriptions["avo"]) = 1
    /\ subs[cov_subscriptions["avo"][1]].confirmed
    /\ enq["c1"] = 0
    /\ checked # None
    /\ checked[1].obj = "avo"
    /\ checked[1].before.presentValue = 2
    /\ values["avo"].presentValue = 2
    /\ notified = << >>

\* C30: after every evaluation of an object under the increment criteria
\* whose covIncrement is above 0, the present value lies strictly between the
\* snapshot minus the increment and the snapshot plus the increment: the
\* snapshot stays where it was, and nothing is reported for the present value,
\* until the present value is the increment or more away from it, and then
\* the snapshot is the present value.
C30_Deadband ==
    [][ ( /\ lastStep' = "write"
          /\ checked' # None
          /\ ObjectClass(checked'[1].obj) = "COVIncrementCriteria"
          /\ values'[checked'[1].obj].covIncrement > 0 ) =>
            LET o == checked'[1].obj
                inc == values'[o].covIncrement
                v == values'[o].presentValue
                before == cov_properties[o].presentValue
                after == cov_properties'[o].presentValue
                reached == v <= before - inc \/ v >= before + inc
            IN  /\ after - inc < v
                /\ v < after + inc
                /\ after = IF reached THEN v ELSE before
                /\ reached => checked'[1].something_changed
                /\ (~ reached /\ values'[o].statusFlags = cov_properties[o].statusFlags)
                       => ~ checked'[1].something_changed
      ]_vars

\* avo has drifted half of its increment of 1.0 away from the snapshot and
\* the evaluation has reported nothing
C30_Witness ==
    /\ lastStep = "write"
    /\ checked # None
    /\ checked[1].obj = "avo"
    /\ ~ checked[1].something_changed
    /\ values["avo"].covIncrement = 2
    /\ cov_properties["avo"].presentValue = 2
    /\ values["avo"].presentValue = 3

====
